---- MODULE Spec2Model ----
(***************************************************************************)
(* A model of maccelerator's adaptive-sampling core:                       *)
(*   - model.py : SortCountsAdapter, ClusterModeller, TMatModeller,        *)
(*                save_starting_states, load_trajectories                  *)
(*   - param.py : AdaptiveParams (round pointer, directories)              *)
(*                                                                         *)
(* Python's None is the empty sequence <<>> and a value x that is set is   *)
(* the one-element sequence <<x>>, so that an attribute can be compared    *)
(* with None whatever it holds.  State indices are 0-based as in numpy;    *)
(* a trajectory is a sequence of state indices.                            *)
(***************************************************************************)
EXTENDS Integers, Sequences, FiniteSets, TLC

VARIABLES
    \* ---- a modeller object and the calls made on it (model.py)
    mtype,          \* "TMat" or "Cluster": the class that was constructed
    trajs,          \* the trajectories handed to _model
    lagtime,        \* the lag time handed to _model
    msm,            \* self.msm: None, or the fitted model's raw counts
    found_states,   \* TMatModeller.found_states
    clusterer,      \* ClusterModeller.clusterer: None, or the fitted n_clusters
    n_clusters,     \* the n_clusters last passed to MiniBatchKMeans
    op,             \* the last operation called
    err,            \* how it ended: "none" or the exception raised
    ret,            \* the states the last call returned: None unless it was
                    \* an adapt that returned
    tpr,            \* params.tpr, as given when the parameters were made
    \* ---- an AdaptiveParams object and the file system (param.py)
    round_i,        \* self._round_i
    rundir,         \* self.rundir
    traj_dir,       \* self.traj_dir
    sstate_dir,     \* self.sstate_dir
    dirs,           \* the directories that exist
    sstates,        \* the saved starting states, by the round in the file name
    out_fn,         \* the out_fn of the last save_starting_states
    arg_round,      \* the round_i argument of the last call
    p_op,           \* the last operation called
    p_err,          \* how it ended: "none" or the exception raised
    \* ---- the trajectory store and load_trajectories (model.py)
    store,          \* round -> None (no directory) or the files in trajs/round-r
    lt_trajs,       \* the trajectories returned by the last load_trajectories
    lt_steps,       \* the wall_steps returned
    lt_round,       \* its round_i argument
    lt_err          \* how it ended

vars == <<mtype, trajs, lagtime, msm, found_states, clusterer, n_clusters, op,
          err, ret, tpr, round_i, rundir, traj_dir, sstate_dir, dirs, sstates,
          out_fn, arg_round, p_op, p_err, store, lt_trajs, lt_steps, lt_round, lt_err>>

modelVars == <<mtype, trajs, lagtime, msm, found_states, clusterer, n_clusters,
               op, err, ret, tpr>>
paramVars == <<round_i, rundir, traj_dir, sstate_dir, dirs, sstates, out_fn,
               arg_round, p_op, p_err>>
storeVars == <<store, lt_trajs, lt_steps, lt_round, lt_err>>

\* ---- bounds of the model
NStates == 3        \* discrete states 0 .. NStates-1
MaxFrames == 3      \* frames in all the trajectories handed to _model
MaxLag == 2         \* lag times 1 .. MaxLag
MaxRound == 2       \* rounds 0 .. MaxRound
MaxFiles == 1       \* file stems per round directory

None == <<>>
Some(x) == <<x>>
Min(a, b) == IF a <= b THEN a ELSE b
Max(a, b) == IF a >= b THEN a ELSE b

StateIds == 0 .. (NStates - 1)
LagTimes == 1 .. MaxLag
TprValues == 1 .. NStates
TrajCounts == 0 .. 2

SeqsUpTo(S, n) == UNION {[1 .. k -> S] : k \in 0 .. n}

\* lists of exactly m trajectories holding at most f frames together
RECURSIVE ListsOf(_, _)
ListsOf(m, f) ==
    IF m = 0 THEN {<<>>}
    ELSE UNION {{<<t>> \o r : r \in ListsOf(m - 1, f - Len(t))} :
                t \in SeqsUpTo(StateIds, f)}

TrajInputs == UNION {ListsOf(m, MaxFrames) : m \in TrajCounts}

RECURSIVE SumLen(_)
SumLen(ts) == IF ts = <<>> THEN 0 ELSE Len(Head(ts)) + SumLen(Tail(ts))

RECURSIVE SumOver(_, _)
SumOver(f, S) ==
    IF S = {} THEN 0
    ELSE LET x == CHOOSE y \in S : TRUE IN f[x] + SumOver(f, S \ {x})

-----------------------------------------------------------------------------
(* MarkovStateModel(lag_time).fit(sequences).rawcounts_ : entry (i, j) is    *)
(* the number of positions p with sequence[p] = i and sequence[p + lag] = j, *)
(* over all the sequences; a sequence no longer than the lag adds nothing.   *)
PairsIn(t, lag, i, j) ==
    Cardinality({p \in 1 .. Len(t) : p + lag <= Len(t) /\ t[p] = i /\ t[p + lag] = j})

RECURSIVE CountPairs(_, _, _, _)
CountPairs(ts, lag, i, j) ==
    IF ts = <<>> THEN 0
    ELSE PairsIn(Head(ts), lag, i, j) + CountPairs(Tail(ts), lag, i, j)

RawCounts(ts, lag, n) ==
    [n |-> n,
     c |-> [e \in (0 .. (n - 1)) \X (0 .. (n - 1)) |-> CountPairs(ts, lag, e[1], e[2])]]

\* how the library's fit ends on these sequences: it concatenates them to find
\* the states, which numpy refuses for an empty list and which leaves it no
\* state at all when no sequence holds a frame; it rejects nothing else
FitOutcomes(ts) == IF SumLen(ts) = 0 THEN {"ValueError"} ELSE {"none"}

\* countscoo = rawcounts_.tocoo(); np.unique(np.hstack((row, col)))
NonZero(m) == {e \in DOMAIN m.c : m.c[e] # 0}
FoundRowsOnly(m) == {e[1] : e \in NonZero(m)}
FoundStatesOf(m) == {e[1] : e \in NonZero(m)} \cup {e[2] : e \in NonZero(m)}

\* int(np.sqrt(x)) for an integer x >= 0
ISqrt(x) == CHOOSE r \in 0 .. x : r * r <= x /\ (r + 1) * (r + 1) > x

\* n_clusters = int(np.sqrt(n_datapoints / 2)); the division is a float
\* division and floor(sqrt(n / 2)) = floor(sqrt(floor(n / 2)))
NClusters(n_datapoints) == ISqrt(n_datapoints \div 2)

\* clusterer.labels_: one label in 0 .. k-1 per frame, in the shape of trajs_vec
RECURSIVE Split(_, _, _)
Split(flat, ts, from) ==
    IF ts = <<>> THEN <<>>
    ELSE <<[p \in 1 .. Len(Head(ts)) |-> flat[from + p]]>>
         \o Split(flat, Tail(ts), from + Len(Head(ts)))

Labelings(ts, k) == {Split(flat, ts, 0) : flat \in [1 .. SumLen(ts) -> 0 .. (k - 1)]}

-----------------------------------------------------------------------------
(* TMatModeller._model *)
TMatModel ==
    /\ mtype = "TMat"
    /\ op' = "model"
    /\ \E out \in FitOutcomes(trajs) :
        /\ err' = out
        /\ IF out = "none"
           THEN LET m == RawCounts(trajs, lagtime, NStates) IN
                /\ msm' = Some(m)
                /\ found_states' = Some(FoundStatesOf(m))
           ELSE UNCHANGED <<msm, found_states>>
    /\ ret' = None
    /\ UNCHANGED <<mtype, trajs, lagtime, clusterer, n_clusters, tpr>>
    /\ UNCHANGED <<paramVars, storeVars>>

(* ClusterModeller._model *)
ClusterModel ==
    /\ mtype = "Cluster"
    /\ op' = "model"
    /\ LET k == NClusters(SumLen(trajs)) IN
        /\ n_clusters' = Some(k)
        /\ IF k = 0
           THEN \* MiniBatchKMeans cannot fit zero clusters
                /\ err' = "ValueError"
                /\ UNCHANGED <<clusterer, msm>>
           ELSE /\ err' = "none"
                /\ clusterer' = Some(k)
                /\ \E labels \in Labelings(trajs, k) :
                       msm' = Some(RawCounts(labels, lagtime, k))
    /\ ret' = None
    /\ UNCHANGED <<mtype, trajs, lagtime, found_states, tpr>>
    /\ UNCHANGED <<paramVars, storeVars>>

\* the counts property of both modellers: self.msm.rawcounts_
CountsAlwaysThere(m) ==
    IF m = None THEN [err |-> "none", val |-> Some(RawCounts(<<>>, 1, NStates))]
    ELSE [err |-> "none", val |-> m]
Counts(m) ==
    IF m = None THEN [err |-> "AttributeError", val |-> None]
    ELSE [err |-> "none", val |-> m]

ReadCounts ==
    /\ op' = "counts"
    /\ err' = Counts(msm).err
    /\ ret' = None
    /\ UNCHANGED <<mtype, trajs, lagtime, msm, found_states, clusterer,
                   n_clusters, tpr>>
    /\ UNCHANGED <<paramVars, storeVars>>

\* counts.sum(axis=1), flattened
CountsPerState(m) ==
    [s \in 0 .. (m.n - 1) |-> SumOver([j \in 0 .. (m.n - 1) |-> m.c[<<s, j>>]],
                                      0 .. (m.n - 1))]

\* np.argsort(a) with the default kind: an index array that sorts a; the
\* default sort is not stable, so any order among equal values can come out
\* (the orders of the indices S of a by ascending value: a least one first)
RECURSIVE SortOrders(_, _)
SortOrders(a, S) ==
    IF S = {} THEN {<<>>}
    ELSE UNION {{<<s>> \o r : r \in SortOrders(a, S \ {s})} :
                s \in {x \in S : \A y \in S : a[x] <= a[y]}}

ArgSorts(a) == SortOrders(a, DOMAIN a)

(* SortCountsAdapter.adapt *)
Adapt ==
    /\ op' = "adapt"
    /\ LET counts == Counts(msm)
           adapt_found == None   \* found_states = None
       IN
       IF counts.err # "none"
       THEN /\ err' = counts.err
            /\ ret' = None
       ELSE LET cps == CountsPerState(counts.val[1])
                counts_per_state ==
                    IF adapt_found # None
                    THEN [s \in adapt_found[1] |-> cps[s]]
                    ELSE cps
                n_tpr == tpr
            IN
            /\ err' = "none"
            /\ ret' \in {Some(IF Len(states_to_sample) > n_tpr
                                THEN SubSeq(states_to_sample, 1, n_tpr)
                                ELSE states_to_sample) :
                          states_to_sample \in ArgSorts(counts_per_state)}
    /\ UNCHANGED <<mtype, trajs, lagtime, msm, found_states, clusterer,
                   n_clusters, tpr>>
    /\ UNCHANGED <<paramVars, storeVars>>

-----------------------------------------------------------------------------
ModelConstructed ==
    /\ msm = None /\ found_states = None /\ clusterer = None
    /\ n_clusters = None /\ op = "init" /\ err = "none" /\ ret = None

ModelInit ==
    /\ mtype \in {"TMat", "Cluster"}
    /\ trajs \in TrajInputs
    /\ lagtime \in LagTimes
    /\ tpr \in TprValues
    /\ ModelConstructed

ModelIdle ==
    mtype = "TMat" /\ trajs = <<>> /\ lagtime = 1 /\ tpr = 1 /\ ModelConstructed

ParamsIdle ==
    /\ round_i = -1 /\ rundir = None /\ traj_dir = <<>> /\ sstate_dir = <<>>
    /\ dirs = {} /\ sstates = [k \in 0 .. (MaxRound + 1) |-> None]
    /\ out_fn = None /\ arg_round = None /\ p_op = "init" /\ p_err = "none"

StoreIdle ==
    /\ store = [r \in 0 .. MaxRound |-> None]
    /\ lt_trajs = None /\ lt_steps = None /\ lt_round = None /\ lt_err = "none"

InitModel == ModelInit /\ ParamsIdle /\ StoreIdle
NextModel == TMatModel \/ ClusterModel \/ ReadCounts \/ Adapt
SpecModel == InitModel /\ [][NextModel]_vars

-----------------------------------------------------------------------------
(* Claims about the modellers and the adapter, under SpecModel *)

\* the transitions a trajectory set shows at a lag: pairs (from, to)
TransitionsOf(ts, lag) ==
    UNION {{<<ts[i][p], ts[i][p + lag]>> : p \in 1 .. (Len(ts[i]) - lag)} :
           i \in 1 .. Len(ts)}

VisitedStates(ts) == UNION {{ts[i][p] : p \in 1 .. Len(ts[i])} : i \in 1 .. Len(ts)}

\* C1: every state returned by adapt on a built TMatModeller is one of its
\* found_states
C1_AdaptReturnsFoundStates ==
    (mtype = "TMat" /\ op = "adapt" /\ err = "none")
        => \A k \in 1 .. Len(ret[1]) : ret[1][k] \in found_states[1]

\* the states of a counts vector by ascending count, equal counts by ascending index
SortedByCountThenIndex(a) ==
    LET n == Cardinality(DOMAIN a) IN
    CHOOSE p \in [1 .. n -> DOMAIN a] :
        \A x, y \in 1 .. n :
            x < y => \/ a[p[x]] < a[p[y]]
                     \/ (a[p[x]] = a[p[y]] /\ p[x] < p[y])

C3_FoundStatesRowsAndCols ==
    (mtype = "TMat" /\ msm # None)
        => /\ found_states # None
           /\ found_states[1] \subseteq StateIds
           /\ found_states[1] =
                  {s \in StateIds : \E j \in StateIds :
                       msm[1].c[<<s, j>>] > 0 \/ msm[1].c[<<j, s>>] > 0}
           /\ \A e \in TransitionsOf(trajs, lagtime) :
                  e[1] \in found_states[1] /\ e[2] \in found_states[1]
           /\ \A s \in found_states[1] :
                  \E e \in TransitionsOf(trajs, lagtime) : s = e[1] \/ s = e[2]

\* a built model with a found state that is only ever a destination, and a
\* visited state that is not found
C3_Witness ==
    /\ mtype = "TMat" /\ op = "model" /\ err = "none"
    /\ \E s \in found_states[1] : \A j \in StateIds : msm[1].c[<<s, j>>] = 0
    /\ \E s \in VisitedStates(trajs) : s \notin found_states[1]

\* C4: the cluster count handed to the clusterer is max(1, floor(sqrt(n / 2)))
C4_ClusterCountAtLeastOne ==
    (mtype = "Cluster" /\ op = "model")
        => /\ n_clusters[1] >= 1
           /\ n_clusters[1] = Max(1, ISqrt(SumLen(trajs) \div 2))

\* too little data for a model: no trajectory, fewer than 2 frames in all, or
\* a trajectory shorter than the lag time
InsufficientData(ts, lag) ==
    \/ ts = <<>>
    \/ SumLen(ts) < 2
    \/ \E i \in 1 .. Len(ts) : Len(ts[i]) < lag

\* C5: a build on insufficient data ends in an error (InsufficientDataError in
\* the claim; any error is taken for it here) and leaves the modeller without
\* a model
C5_InsufficientDataRejected ==
    (op = "model" /\ InsufficientData(trajs, lagtime))
        => err # "none" /\ msm = None /\ found_states = None

-----------------------------------------------------------------------------
(* AdaptiveParams and the directories (param.py).  A path is the sequence   *)
(* of its components, a component is <<name, number>>, and the empty path   *)
(* is the '' that the directory attributes start as: a path joined to it    *)
(* is relative to the working directory, which always exists.               *)
TRAJ == <<"trajs", 0>>
SSTATE == <<"sstates", 0>>
MSMS == <<"msms", 0>>
FIGS == <<"figs", 0>>
TRAJROUND(r) == <<"round", r>>

RunDir == <<<<"run", 0>>>>
pjoin(dir, name) == Append(dir, name)
Parent(path) == SubSeq(path, 1, Len(path) - 1)
Rounds == 0 .. MaxRound

\* os.mkdir(path) on the directories ds
Mkdir(ds, path) ==
    IF path \in ds THEN [err |-> "FileExistsError", dirs |-> ds]
    ELSE IF Parent(path) # <<>> /\ Parent(path) \notin ds
         THEN [err |-> "FileNotFoundError", dirs |-> ds]
         ELSE [err |-> "none", dirs |-> ds \cup {path}]

\* the os.mkdir calls of a try block, one after the other up to the first OSError
RECURSIVE MkdirAll(_, _)
MkdirAll(ds, paths) ==
    IF paths = <<>> THEN [err |-> "none", dirs |-> ds]
    ELSE LET r == Mkdir(ds, Head(paths)) IN
         IF r.err # "none" THEN r ELSE MkdirAll(r.dirs, Tail(paths))

\* the rundir attribute is given by the caller before make_directories
SetRundir ==
    /\ rundir = None
    /\ rundir' = Some(RunDir)
    /\ p_op' = "set_rundir" /\ p_err' = "none"
    /\ UNCHANGED <<round_i, traj_dir, sstate_dir, dirs, sstates, out_fn, arg_round>>
    /\ UNCHANGED <<modelVars, storeVars>>

(* AdaptiveParams.make_directories *)
MakeDirectories ==
    /\ p_op' = "make_directories"
    /\ IF rundir = None
       THEN \* pjoin(None, ...) raises
            /\ p_err' = "TypeError"
            /\ UNCHANGED <<traj_dir, sstate_dir, dirs>>
       ELSE LET rd == rundir[1]
                r == MkdirAll(dirs, <<pjoin(rd, TRAJ), pjoin(rd, SSTATE),
                                      pjoin(rd, MSMS), pjoin(rd, FIGS)>>)
            IN
            /\ traj_dir' = pjoin(rd, TRAJ)
            /\ sstate_dir' = pjoin(rd, SSTATE)
            /\ dirs' = r.dirs
            /\ p_err' = "none"     \* an OSError is caught and logged
    /\ UNCHANGED <<round_i, rundir, sstates, out_fn, arg_round>>
    /\ UNCHANGED <<modelVars, storeVars>>

(* AdaptiveParams.make_trajround *)
MakeTrajround(r) ==
    /\ p_op' = "make_trajround"
    /\ arg_round' = Some(r)
    /\ round_i' = r
    /\ LET m == Mkdir(dirs, pjoin(traj_dir, TRAJROUND(r))) IN
        /\ dirs' = m.dirs
        /\ p_err' = m.err
    /\ UNCHANGED <<rundir, traj_dir, sstate_dir, sstates, out_fn>>
    /\ UNCHANGED <<modelVars, storeVars>>

\* AdaptiveParams.seed_state_fn
seed_state_fn == [dir |-> sstate_dir, base |-> "seed", round |-> round_i + 1]

\* out_fn of save_starting_states: 'round-%d.h5' % (round_i + 1) under 'sstates'
OutFnSameRound(r) == [dir |-> <<SSTATE>>, base |-> "round", round |-> r]
OutFn(r) == [dir |-> <<SSTATE>>, base |-> "round", round |-> r + 1]

SeedSets == {<<0>>, <<1>>}

(* save_starting_states *)
SaveStartingStates(state_is, r) ==
    /\ p_op' = "save_starting_states"
    /\ p_err' = "none"
    /\ arg_round' = Some(r)
    /\ out_fn' = Some(OutFn(r))
    /\ sstates' = [sstates EXCEPT ![OutFn(r).round] = Some(state_is)]
    /\ UNCHANGED <<round_i, rundir, traj_dir, sstate_dir, dirs>>
    /\ UNCHANGED <<modelVars, storeVars>>

\* the run directory and its four sub-directories, any of which may be there
\* already when a run is set up again
LayoutDirs == {pjoin(RunDir, TRAJ), pjoin(RunDir, SSTATE),
               pjoin(RunDir, MSMS), pjoin(RunDir, FIGS)}
InitialDirSets == {{}} \cup {{RunDir} \cup D : D \in SUBSET LayoutDirs}

ParamsConstructed ==
    /\ round_i = -1 /\ rundir = None /\ traj_dir = <<>> /\ sstate_dir = <<>>
    /\ sstates = [k \in 0 .. (MaxRound + 1) |-> None]
    /\ out_fn = None /\ arg_round = None /\ p_op = "init" /\ p_err = "none"

InitParams == ModelIdle /\ StoreIdle /\ ParamsConstructed /\ dirs \in InitialDirSets
NextParams ==
    \/ SetRundir
    \/ MakeDirectories
    \/ \E r \in Rounds : MakeTrajround(r)
SpecParams == InitParams /\ [][NextParams]_vars

InitSeeds == ModelIdle /\ StoreIdle /\ ParamsIdle
NextSeeds ==
    \/ \E r \in Rounds : MakeTrajround(r)
    \/ \E state_is \in SeedSets, r \in Rounds : SaveStartingStates(state_is, r)
SpecSeeds == InitSeeds /\ [][NextSeeds]_vars

-----------------------------------------------------------------------------
(* Claims about AdaptiveParams, under SpecParams and SpecSeeds *)

\* C8: the round pointer starts at -1 and every change of it is an increase
\* by exactly 1
C8_RoundPointerStepsByOne ==
    /\ round_i = -1
    /\ [][round_i' # round_i => round_i' = round_i + 1]_vars

\* C9: make_directories, and make_trajround for a round whose directory is
\* there already, raise no error, and the same call made again leaves the
\* directories as the first call left them
C9_NamespaceCreationIdempotent ==
    [][/\ (p_op' = "make_directories" /\ rundir # None) => p_err' = "none"
       /\ (p_op' = "make_trajround"
             /\ pjoin(traj_dir, TRAJROUND(arg_round'[1])) \in dirs)
            => p_err' = "none"
       /\ (p_op' = p_op /\ arg_round' = arg_round
             /\ p_op \in {"make_directories", "make_trajround"})
            => dirs' = dirs]_vars

\* C10: save_starting_states(.., i, ..) writes the key i + 1 and no other key,
\* and leaves the round pointer alone; called with the pointer's round it
\* writes the round that seed_state_fn names, which is always the pointer's
\* round plus one
C10_SeedsKeyedOneRoundAhead ==
    [][p_op' = "save_starting_states"
         => LET i == arg_round'[1] IN
            /\ out_fn'[1].round = i + 1
            /\ sstates'[i + 1] # None
            /\ \A k \in DOMAIN sstates : k # i + 1 => sstates'[k] = sstates[k]
            /\ round_i' = round_i
            /\ i = round_i => out_fn'[1].round = seed_state_fn.round]_vars

\* seeds of round i + 1 saved while the pointer is i and round i's seeds are kept
C10_Witness ==
    /\ p_op = "save_starting_states"
    /\ round_i >= 0
    /\ arg_round = Some(round_i)
    /\ sstates[round_i] # None
    /\ sstates[round_i + 1] # None

-----------------------------------------------------------------------------
(* The trajectory store and load_trajectories (model.py).  A file of a      *)
(* round directory is [stem, ext]; its trajectory holds `stem` frames, and  *)
(* a loaded trajectory is known by <<round, file>>.                         *)
Files == [stem : 1 .. MaxFiles, ext : {"h5", "txt"}]
DirContents == {None} \cup {Some(F) : F \in SUBSET Files}
TrajLen(t) == t[2].stem

\* range(round_i + 1)
RoundRangeExclusive(r) == 0 .. (r - 1)
RoundRange(r) == 0 .. r

\* [load_func(..) for s in os.listdir(tdir) if s.endswith('.h5')]
LoadRound(st, cround) == {<<cround, f>> : f \in {g \in st[cround][1] : g.ext = "h5"}}

(* load_trajectories *)
LoadTrajectories(r) ==
    /\ lt_round' = Some(r)
    /\ IF \E cround \in RoundRange(r) : store[cround] = None
       THEN \* os.listdir of a directory that is not there
            /\ lt_err' = "FileNotFoundError"
            /\ lt_trajs' = None /\ lt_steps' = None
       ELSE LET loaded == UNION {LoadRound(store, cround) : cround \in RoundRange(r)} IN
            IF loaded = {}
            THEN \* trajs[0] of an empty list
                 /\ lt_err' = "IndexError"
                 /\ lt_trajs' = None /\ lt_steps' = None
            ELSE LET first == CHOOSE c \in RoundRange(r) :
                                  /\ LoadRound(store, c) # {}
                                  /\ \A d \in RoundRange(r) :
                                         d < c => LoadRound(store, d) = {}
                 IN
                 /\ lt_err' = "none"
                 /\ lt_trajs' = Some(loaded)
                 \* trajs[0] is whichever file os.listdir names first
                 /\ \E t \in LoadRound(store, first) :
                        lt_steps' = Some(TrajLen(t) * (r + 1))
    /\ UNCHANGED store
    /\ UNCHANGED <<modelVars, paramVars>>

InitLoad ==
    /\ ModelIdle /\ ParamsIdle
    /\ store \in [Rounds -> DirContents]
    /\ lt_trajs = None /\ lt_steps = None /\ lt_round = None /\ lt_err = "none"
NextLoad == \E r \in Rounds : LoadTrajectories(r)
SpecLoad == InitLoad /\ [][NextLoad]_vars

-----------------------------------------------------------------------------
(* Claims about load_trajectories, under SpecLoad *)

\* the .h5 trajectories stored under the rounds 0 .. r
StoredUpTo(r) ==
    {t \in Rounds \X Files :
        /\ t[1] <= r
        /\ store[t[1]] # None
        /\ t[2] \in store[t[1]][1]
        /\ t[2].ext = "h5"}

\* C7: what load_trajectories(i) returns is exactly the trajectories stored
\* under the rounds 0 .. i, and a call for the next round returns a superset
C7_LoadIsCumulative ==
    /\ [](lt_trajs # None => lt_trajs[1] = StoredUpTo(lt_round[1]))
    /\ [][(lt_trajs # None /\ lt_trajs' # None /\ lt_round'[1] = lt_round[1] + 1)
            => lt_trajs[1] \subseteq lt_trajs'[1]]_vars

\* a load of round 1 that returns round 0's and round 1's trajectories while
\* a later round holds one too and a file that is no trajectory is there
C7_Witness ==
    /\ lt_err = "none" /\ lt_round = Some(1)
    /\ \E t \in lt_trajs[1] : t[1] = 0
    /\ \E t \in lt_trajs[1] : t[1] = 1
    /\ store[2] # None /\ \E f \in store[2][1] : f.ext = "h5"
    /\ \E f \in store[0][1] : f.ext = "txt"

====
